---------------------------- MODULE Spec2Model ----------------------------
(***************************************************************************)
(* Model of the ball volume measurement programs main.py,                  *)
(* fullscreen-main.py and raspi_main.py: the BallVolumeMeasurement class   *)
(* (detect_ball, calibrate, calculate_volume,                              *)
(* calculate_volumetric_weight) and the frame loop of run().               *)
(*                                                                         *)
(* Python floats are modelled as exact fractions <<n, d>> in lowest terms  *)
(* with d >= 0.  d = 0 encodes the non-finite floats: <<1, 0>> is inf,     *)
(* <<-1, 0>> is -inf and <<0, 0>> is nan.  None is the empty tuple and a   *)
(* raised exception is the 1-tuple of its name, so that every value a      *)
(* Python expression can produce here is a tuple.                          *)
(***************************************************************************)
EXTENDS Integers, Sequences, FiniteSets, TLC

VARIABLES
    variant,            \* which program runs: "main", "fullscreen", "raspi"
    calibration_ratio,  \* self.calibration_ratio
    real_diameter,      \* self.real_diameter
    conversion_factor,  \* self.conversion_factor
    calibration_done,   \* local flag of run()
    factor_set,         \* local flag of run()
    pc,                 \* "read": top of the while loop; "key": at waitKey;
                        \* "done": run() has been left
    exit,               \* why run() was left: "running" while it has not,
                        \* "read_failed", "quit", or the exception's name
    ret,                \* the flag returned by the latest cap.read()
    circles,            \* what HoughCircles returned for the latest frame
    circle,             \* what detect_ball returned for the latest frame
    volume,             \* the volume computed while rendering the latest frame
    volumetric_weight,  \* the weight computed while rendering the latest frame
    key,                \* the key waitKey returned in the latest iteration
    text,               \* the line input() returned in the latest iteration
    calls               \* the methods and builtins the latest step invoked

vars == <<variant, calibration_ratio, real_diameter, conversion_factor,
          calibration_done, factor_set, pc, exit, ret, circles, circle,
          volume, volumetric_weight, key, text, calls>>

calib == <<calibration_ratio, real_diameter, conversion_factor,
           calibration_done, factor_set>>

frame == <<ret, circles, circle, volume, volumetric_weight>>

-----------------------------------------------------------------------------
(* Values *)

None == <<>>

Raise(name) == <<name>>

IsExc(v) == Len(v) = 1

IsNum(v) == Len(v) = 2

Abs(i) == IF i < 0 THEN -i ELSE i

Sign(i) == IF i < 0 THEN -1 ELSE IF i > 0 THEN 1 ELSE 0

RECURSIVE GCD(_, _)
GCD(a, b) == IF b = 0 THEN a ELSE GCD(b, a % b)

\* The float with value n/d, d >= 0, in lowest terms.
Float(n, d) ==
    IF d = 0 THEN <<Sign(n), 0>>
    ELSE LET g == GCD(Abs(n), d) IN <<Sign(n) * (Abs(n) \div g), d \div g>>

FromInt(i) == <<i, 1>>

IsNaN(x) == x = <<0, 0>>

IsInf(x) == x[2] = 0 /\ x[1] # 0

IsFinite(x) == x[2] # 0

IsZero(x) == x[2] # 0 /\ x[1] = 0

\* Python float multiplication a * b (inf * 0 and nan * x are nan).
Mul(a, b) ==
    IF a[2] = 0 \/ b[2] = 0 THEN <<Sign(a[1]) * Sign(b[1]), 0>>
    ELSE LET g1 == GCD(Abs(a[1]), b[2])
             g2 == GCD(Abs(b[1]), a[2])
         IN  Float((a[1] \div g1) * (b[1] \div g2),
                   (a[2] \div g2) * (b[2] \div g1))

\* Python float division a / b: division by a zero raises.
Div(a, b) ==
    IF IsZero(b) THEN Raise("ZeroDivisionError")
    ELSE Mul(a, <<Sign(b[1]) * b[2], Abs(b[1])>>)

\* Python a ** 3.
Pow3(a) == Mul(Mul(a, a), a)


\* a < b on non-negative finite fractions n/d, compared by whole parts and
\* then by the reciprocals of the remainders.
RECURSIVE LessFrac(_, _, _, _)
LessFrac(an, ad, bn, bd) ==
    LET qa == an \div ad
        qb == bn \div bd
        ra == an % ad
        rb == bn % bd
    IN  IF qa # qb THEN qa < qb
        ELSE IF ra = 0 THEN rb > 0
        ELSE IF rb = 0 THEN FALSE
        ELSE LessFrac(bd, rb, ad, ra)

\* Python float comparison a < b: false when either side is nan.
Less(a, b) ==
    IF IsNaN(a) \/ IsNaN(b) \/ a = b THEN FALSE
    ELSE IF a[2] = 0 THEN a[1] < 0
    ELSE IF b[2] = 0 THEN b[1] > 0
    ELSE IF Sign(a[1]) # Sign(b[1]) THEN Sign(a[1]) < Sign(b[1])
    ELSE IF a[1] >= 0 THEN LessFrac(a[1], a[2], b[1], b[2])
    ELSE LessFrac(-b[1], b[2], -a[1], a[2])

\* Python int(x) on a finite float: truncation toward zero.
int(x) == Sign(x[1]) * (Abs(x[1]) \div x[2])

\* Python int(round(x)): round() raises on nan and inf, and rounds a tie to
\* the even neighbour.
int_round(x) ==
    IF IsNaN(x) THEN Raise("ValueError")
    ELSE IF IsInf(x) THEN Raise("OverflowError")
    ELSE LET lo  == x[1] \div x[2]
             rem == x[1] - lo * x[2]
         IN  IF 2 * rem < x[2] THEN <<lo, 1>>
             ELSE IF 2 * rem > x[2] THEN <<lo + 1, 1>>
             ELSE IF lo % 2 = 0 THEN <<lo, 1>> ELSE <<lo + 1, 1>>

Digits == <<"0", "1", "2", "3", "4", "5", "6", "7", "8", "9">>

DigitVal(c) == (CHOOSE i \in DOMAIN Digits : Digits[i] = c) - 1

IsDigit(c) == \E i \in DOMAIN Digits : Digits[i] = c

RECURSIVE IntOf(_)
IntOf(ds) ==
    IF ds = <<>> THEN 0
    ELSE 10 * IntOf(SubSeq(ds, 1, Len(ds) - 1)) + DigitVal(ds[Len(ds)])

RECURSIVE Pow10(_)
Pow10(k) == IF k = 0 THEN 1 ELSE 10 * Pow10(k - 1)

\* Python float(s) on a line of characters: an optional sign, then "inf",
\* "nan", or decimal digits with at most one point and at least one digit.
\* Anything else raises ValueError.  (Exponents, underscores, surrounding
\* blanks and upper case, which float() also accepts, are not among the
\* lines the operator types here.)
float(s) ==
    LET signed == Len(s) > 0 /\ s[1] \in {"+", "-"}
        sgn    == IF signed /\ s[1] = "-" THEN -1 ELSE 1
        body   == IF signed THEN Tail(s) ELSE s
        dots   == {i \in DOMAIN body : body[i] = "."}
        digs   == SelectSeq(body, IsDigit)
    IN  IF body = <<"i", "n", "f">> THEN <<sgn, 0>>
        ELSE IF body = <<"n", "a", "n">> THEN <<0, 0>>
        ELSE IF /\ Cardinality(dots) <= 1
                /\ Len(digs) >= 1
                /\ Len(digs) + Cardinality(dots) = Len(body)
        THEN LET frac == IF dots = {} THEN 0
                         ELSE Len(body) - (CHOOSE i \in dots : TRUE)
             IN  Float(sgn * IntOf(digs), Pow10(frac))
        ELSE Raise("ValueError")

-----------------------------------------------------------------------------
(* Inputs *)

\* The longest candidate list HoughCircles returns for one frame.
MaxCandidates == 2

\* Raw circles (x, y, r) as HoughCircles reports them, in pixels; the radii
\* lie in the search window minRadius = 20 .. maxRadius = 300.
RawCircles ==
    { <<Float(1000, 10), Float(1000, 10), Float(200, 10)>>,
      <<Float(1204, 10), Float(987, 10),  Float(257, 10)>>,
      <<Float(805, 10),  Float(1105, 10), Float(305, 10)>> }

RECURSIVE SeqsUpTo(_, _)
SeqsUpTo(S, n) ==
    IF n = 0 THEN {<<>>}
    ELSE LET shorter == SeqsUpTo(S, n - 1)
         IN  shorter \cup {Append(q, e) : q \in shorter, e \in S}

\* What HoughCircles can return: None, or a non-empty ranked candidate list
\* (row 0 of the array the library returns).
HoughOutputs == SeqsUpTo(RawCircles, MaxCandidates)

\* Keys waitKey can deliver ("" stands for no key pressed, or any key other
\* than q, c and d: the program does not tell them apart).
Keys == {"q", "c", "d", ""}

\* Lines the operator can type at an input() prompt.
InputTexts ==
    { <<"6", "0">>, <<"2", ".", "5">>, <<"9">>, <<"-", "5">>, <<"0">>,
      <<"i", "n", "f">>, <<"n", "a", "n">>, <<"a", "b", "c">>, <<>> }

-----------------------------------------------------------------------------
(* The methods of BallVolumeMeasurement *)

\* math.pi, to the precision of the fraction 22/7.
MathPi == <<22, 7>>

\* detect_ball returning the last row of the candidate list.
detect_ball_last(cs) ==
    IF cs # None
    THEN LET strongest_circle == cs[Len(cs)]
         IN  <<int(strongest_circle[1]), int(strongest_circle[2]),
               int(strongest_circle[3])>>
    ELSE None

\* detect_ball after the HoughCircles call: the strongest circle, each
\* component converted with int().
detect_ball(cs) ==
    IF cs # None
    THEN LET strongest_circle == cs[1]
         IN  <<int(strongest_circle[1]), int(strongest_circle[2]),
               int(strongest_circle[3])>>
    ELSE None

\* calibrate with the quotient inverted: millimetres per pixel.
calibrate_inverted(pixel_diameter, real_diameter_arg) ==
    LET ratio == Div(real_diameter_arg, FromInt(pixel_diameter))
    IN  IF IsExc(ratio) THEN ratio
        ELSE <<ratio, real_diameter_arg>>

\* calibrate: the attributes after the call, or the exception the division
\* raises before anything is assigned.
calibrate(pixel_diameter, real_diameter_arg) ==
    LET ratio == Div(FromInt(pixel_diameter), real_diameter_arg)
    IN  IF IsExc(ratio) THEN ratio
        ELSE <<ratio, real_diameter_arg>>

\* The arithmetic of calculate_volume below the None test.
sphere_volume(pixel_diameter, ratio) ==
    LET diameter_mm == Div(FromInt(pixel_diameter), ratio)
    IN  IF IsExc(diameter_mm) THEN diameter_mm
        ELSE LET radius_cm == Div(Div(diameter_mm, FromInt(2)), FromInt(10))
             IN  Mul(Mul(Div(FromInt(4), FromInt(3)), MathPi), Pow3(radius_cm))

\* calculate_volume of main.py and fullscreen-main.py.
calculate_volume(pixel_diameter) ==
    IF calibration_ratio = None THEN None
    ELSE sphere_volume(pixel_diameter, calibration_ratio)

\* calculate_volume of raspi_main.py: no None test.
raspi_calculate_volume(pixel_diameter) ==
    sphere_volume(pixel_diameter, calibration_ratio)

\* calculate_volumetric_weight falling back to a density of 1 when no
\* factor is set.
calculate_volumetric_weight_default(v) ==
    IF v = None THEN None
    ELSE IF conversion_factor = None THEN v
    ELSE Mul(v, conversion_factor)

\* calculate_volumetric_weight of main.py.
calculate_volumetric_weight(v) ==
    IF v = None \/ conversion_factor = None THEN None
    ELSE Mul(v, conversion_factor)

\* calculate_volumetric_weight of raspi_main.py: no None test.
raspi_calculate_volumetric_weight(v) == Mul(v, conversion_factor)

-----------------------------------------------------------------------------
(* run(): the part of one iteration between detect_ball and imshow.  Each   *)
(* render operator yields what the iteration computed, the exception it     *)
(* raised (None when it raised none) and the methods it invoked.  Drawing   *)
(* and putText change no state of the program and are left out, except for  *)
(* the format expressions that can raise.                                   *)

Rendered(v, w, raised, invoked) ==
    [volume |-> v, volumetric_weight |-> w, raised |-> raised,
     calls |-> invoked]

\* main.py: the measurements are computed only in the branch taken when both
\* flags are set.
render_main(c) ==
    IF c = None \/ ~calibration_done \/ ~factor_set
    THEN Rendered(None, None, None, {})
    ELSE LET v == calculate_volume(2 * c[3])
         IN  IF IsExc(v)
             THEN Rendered(None, None, v, {"calculate_volume"})
             ELSE IF v = None
             THEN Rendered(None, None, None, {"calculate_volume"})
             ELSE LET w  == calculate_volumetric_weight(v)
                      rv == int_round(v)
                      rw == IF w = None THEN Raise("TypeError")
                            ELSE int_round(w)
                      both == {"calculate_volume",
                               "calculate_volumetric_weight"}
                  IN  IF IsExc(rv) THEN Rendered(v, w, rv, both)
                      ELSE IF IsExc(rw) THEN Rendered(v, w, rw, both)
                      ELSE Rendered(v, w, None, both)

\* fullscreen-main.py: the volume is computed whenever calibration is done;
\* there is no weight.
render_fullscreen(c) ==
    IF c = None \/ ~calibration_done
    THEN Rendered(None, None, None, {})
    ELSE LET v == calculate_volume(2 * c[3])
         IN  IF IsExc(v)
             THEN Rendered(None, None, v, {"calculate_volume"})
             ELSE Rendered(v, None, None, {"calculate_volume"})

\* raspi_main.py: volume and weight are computed for every detected circle.
render_raspi(c) ==
    IF c = None
    THEN Rendered(None, None, None, {})
    ELSE LET diameter_px == 2 * c[3]
             diameter_mm == Div(FromInt(diameter_px), calibration_ratio)
             v == raspi_calculate_volume(diameter_px)
         IN  IF IsExc(diameter_mm)
             THEN Rendered(None, None, diameter_mm, {})
             ELSE IF IsExc(v)
             THEN Rendered(None, None, v, {"calculate_volume"})
             ELSE Rendered(v, raspi_calculate_volumetric_weight(v), None,
                           {"calculate_volume",
                            "calculate_volumetric_weight"})

-----------------------------------------------------------------------------
(* Initial state: __init__ and the first lines of run() *)

InitMain ==
    /\ variant = "main"
    /\ calibration_ratio = None
    /\ real_diameter = None
    /\ conversion_factor = None

\* fullscreen-main.py has no conversion_factor attribute.
InitFullscreen ==
    /\ variant = "fullscreen"
    /\ calibration_ratio = None
    /\ real_diameter = None
    /\ conversion_factor = None

\* raspi_main.py starts with the static ratio 3.14 and the factor 9.0, and
\* has no real_diameter attribute.
InitRaspi ==
    /\ variant = "raspi"
    /\ calibration_ratio = Float(314, 100)
    /\ real_diameter = None
    /\ conversion_factor = Float(90, 10)

\* The flags are locals of run() in main.py (both) and fullscreen-main.py
\* (calibration_done); a program without a flag never reads it.
Init ==
    /\ InitMain \/ InitFullscreen \/ InitRaspi
    /\ calibration_done = FALSE
    /\ factor_set = FALSE
    /\ pc = "read"
    /\ exit = "running"
    /\ ret = TRUE
    /\ circles = None
    /\ circle = None
    /\ volume = None
    /\ volumetric_weight = None
    /\ key = ""
    /\ text = <<>>
    /\ calls = {}

-----------------------------------------------------------------------------
(* The loop of run() *)

\* An uncaught exception leaves run(): nothing after the raising statement
\* is executed.
Leave(why) ==
    /\ pc' = "done"
    /\ exit' = why

\* cap.read() reports failure, and the loop goes on to the next read.
ReadFail_continue ==
    /\ pc = "read"
    /\ ret' = FALSE
    /\ pc' = "read"
    /\ exit' = exit
    /\ calls' = {}
    /\ UNCHANGED <<variant, calib, circles, circle, volume, volumetric_weight,
                   key, text>>

\* cap.read() reports failure: the loop breaks.
ReadFail ==
    /\ pc = "read"
    /\ ret' = FALSE
    /\ Leave("read_failed")
    /\ calls' = {}
    /\ UNCHANGED <<variant, calib, circles, circle, volume, volumetric_weight,
                   key, text>>

\* cap.read() succeeds: detect, render, show; then the loop waits for a key.
\* r is what the program's render step yields for the detected circle.
Frame(cs, r) ==
    LET c == detect_ball(cs)
    IN  /\ pc = "read"
        /\ ret' = TRUE
        /\ circles' = cs
        /\ circle' = c
        /\ volume' = r.volume
        /\ volumetric_weight' = r.volumetric_weight
        /\ calls' = {"detect_ball"} \cup r.calls
        /\ IF r.raised # None
           THEN Leave(r.raised[1])
           ELSE pc' = "key" /\ exit' = exit
        /\ key' = ""
        /\ text' = <<>>
        /\ UNCHANGED <<variant, calib>>

FrameMain ==
    /\ variant = "main"
    /\ \E cs \in HoughOutputs : Frame(cs, render_main(detect_ball(cs)))

FrameFullscreen ==
    /\ variant = "fullscreen"
    /\ \E cs \in HoughOutputs :
        Frame(cs, render_fullscreen(detect_ball(cs)))

FrameRaspi ==
    /\ variant = "raspi"
    /\ \E cs \in HoughOutputs : Frame(cs, render_raspi(detect_ball(cs)))

\* key == ord('q'): break.
Quit(k) ==
    /\ k = "q"
    /\ Leave("quit")
    /\ text' = <<>>
    /\ calls' = {}
    /\ UNCHANGED calib

\* No branch of the key test is taken: the loop goes on.
Ignore ==
    /\ pc' = "read"
    /\ exit' = exit
    /\ text' = <<>>
    /\ calls' = {}
    /\ UNCHANGED calib

\* The 'c' branch: float(input(...)), calibrate, calibration_done = True.
\* The arguments are evaluated in order: float() first, then circle[2],
\* which raises TypeError on None.
Calibrate(line) ==
    LET real_diameter_in == float(line)
        done == IF IsExc(real_diameter_in) THEN real_diameter_in
                ELSE IF circle = None THEN Raise("TypeError")
                ELSE calibrate(2 * circle[3], real_diameter_in)
    IN  /\ text' = line
        /\ IF IsExc(done)
           THEN /\ Leave(done[1])
                /\ calls' = IF IsExc(real_diameter_in)
                            THEN {"input"} ELSE {"input", "calibrate"}
                /\ UNCHANGED calib
           ELSE /\ calibration_ratio' = done[1]
                /\ real_diameter' = done[2]
                /\ calibration_done' = TRUE
                /\ pc' = "read"
                /\ exit' = exit
                /\ calls' = {"input", "calibrate"}
                /\ UNCHANGED <<conversion_factor, factor_set>>

\* The 'd' branch of main.py: conversion_factor = float(input(...)),
\* factor_set = True.
SetDensityFactor(line) ==
    LET factor == float(line)
    IN  /\ text' = line
        /\ calls' = {"input"}
        /\ IF IsExc(factor)
           THEN /\ Leave(factor[1])
                /\ UNCHANGED calib
           ELSE /\ conversion_factor' = factor
                /\ factor_set' = TRUE
                /\ pc' = "read"
                /\ exit' = exit
                /\ UNCHANGED <<calibration_ratio, real_diameter,
                               calibration_done>>

\* The 'c' guard without the test for a detected circle.
MayCalibrate_nocircle(k) == k = "c" /\ ~calibration_done

\* The 'c' guard without the test of calibration_done.
MayCalibrate_again(k) == k = "c" /\ circle # None

\* The 'd' guard without the test of calibration_done.
MaySetFactor_uncalibrated(k) == k = "d" /\ ~factor_set

\* The 'd' guard without the test of factor_set.
MaySetFactor_again(k) == k = "d" /\ calibration_done

\* The guards of the two elif branches.
MayCalibrate(k) == k = "c" /\ circle # None /\ ~calibration_done

MaySetFactor(k) == k = "d" /\ calibration_done /\ ~factor_set

\* main.py: q, c and d are handled.
KeyMain ==
    /\ variant = "main"
    /\ pc = "key"
    /\ \E k \in Keys :
        /\ key' = k
        /\ IF k = "q" THEN Quit(k)
           ELSE IF MayCalibrate(k)
           THEN \E line \in InputTexts : Calibrate(line)
           ELSE IF MaySetFactor(k)
           THEN \E line \in InputTexts : SetDensityFactor(line)
           ELSE Ignore
    /\ UNCHANGED <<variant, frame>>

\* fullscreen-main.py: q and c are handled.
KeyFullscreen ==
    /\ variant = "fullscreen"
    /\ pc = "key"
    /\ \E k \in Keys :
        /\ key' = k
        /\ IF k = "q" THEN Quit(k)
           ELSE IF MayCalibrate(k)
           THEN \E line \in InputTexts : Calibrate(line)
           ELSE Ignore
    /\ UNCHANGED <<variant, frame>>

\* raspi_main.py: only q is handled.
KeyRaspi ==
    /\ variant = "raspi"
    /\ pc = "key"
    /\ \E k \in Keys :
        /\ key' = k
        /\ IF k = "q" THEN Quit(k) ELSE Ignore
    /\ UNCHANGED <<variant, frame>>

Next ==
    \/ ReadFail
    \/ FrameMain
    \/ FrameFullscreen
    \/ FrameRaspi
    \/ KeyMain
    \/ KeyFullscreen
    \/ KeyRaspi

Spec == Init /\ [][Next]_vars

-----------------------------------------------------------------------------
(* The calibration state machine as the flags of run() encode it *)

\* main.py tests calibration_done, then factor_set; fullscreen-main.py has
\* only calibration_done; raspi_main.py starts with both values loaded.
State ==
    IF variant = "raspi" THEN "FactorSet"
    ELSE IF ~calibration_done THEN "Uncalibrated"
    ELSE IF variant = "main" /\ factor_set THEN "FactorSet"
    ELSE "Calibrated"

Rank(st) ==
    IF st = "Uncalibrated" THEN 0 ELSE IF st = "Calibrated" THEN 1 ELSE 2

\* The pixel diameters run() passes to calculate_volume: 2 * r for the
\* radii detect_ball can return.
PixelDiameters ==
    {2 * detect_ball(cs)[3] : cs \in HoughOutputs \ {None}}

\* calculate_volume as the running program defines it.
VolumeOf(d) ==
    IF variant = "raspi" THEN raspi_calculate_volume(d)
    ELSE calculate_volume(d)

\* calculate_volumetric_weight as the running program defines it
\* (fullscreen-main.py defines none).
WeightOf(v) ==
    IF variant = "raspi" THEN raspi_calculate_volumetric_weight(v)
    ELSE calculate_volumetric_weight(v)

-----------------------------------------------------------------------------
(* Properties *)

\* C1: a Calibrate action in Uncalibrated, with a circle of radius r in the
\* current frame and a real diameter D > 0 typed by the operator, ends with
\* calibration_ratio * D = 2 * r (a ratio of 0 for D = inf),
\* real_diameter = D and the machine in Calibrated.
C1_CalibrateSetsRatio ==
    [][ ( /\ pc = "key"
          /\ key' = "c"
          /\ circle # None
          /\ State = "Uncalibrated"
          /\ "input" \in calls'
          /\ IsNum(float(text'))
          /\ float(text')[1] > 0 )
        => ( /\ IsNum(calibration_ratio')
             /\ IsFinite(calibration_ratio')
             /\ calibration_ratio'[1] * float(text')[1]
                  = 2 * circle[3] * float(text')[2] * calibration_ratio'[2]
             /\ IsInf(float(text')) => IsZero(calibration_ratio')
             /\ real_diameter' = float(text')
             /\ State' = "Calibrated" ) ]_vars

\* C1 witness: radius 20 calibrated against "60" gives 40/60 = 2/3.
C1_Witness ==
    /\ key = "c"
    /\ text = <<"6", "0">>
    /\ circle = <<100, 100, 20>>
    /\ calibration_ratio = <<2, 3>>
    /\ real_diameter = <<60, 1>>
    /\ State = "Calibrated"

\* C2: a Calibrate action in an iteration whose frame held no circle leaves
\* the calibration attributes and flags unchanged, and the loop goes on.
C2_CalibrateWithoutCircleIsNoOp ==
    [][ (pc = "key" /\ key' = "c" /\ circle = None)
        => (UNCHANGED calib /\ pc' = "read" /\ exit' = "running") ]_vars

\* C2 witness: 'c' was pressed in Uncalibrated on a frame without a circle.
C2_Witness ==
    /\ variant = "main"
    /\ key = "c"
    /\ circle = None
    /\ pc = "read"
    /\ ~calibration_done

\* C3: once calibration_ratio is set, no step changes it.
C3_RatioImmutable ==
    [][ calibration_ratio # None
        => calibration_ratio' = calibration_ratio ]_vars

\* C3 witness: with the ratio and the factor set, 'c' was pressed with a
\* circle in view and calibrate was not called.
C3_Witness ==
    /\ variant = "main"
    /\ calibration_ratio # None
    /\ conversion_factor # None
    /\ key = "c"
    /\ circle # None
    /\ "calibrate" \notin calls
    /\ pc = "read"

\* C4: conversion_factor is set only if calibration_ratio is set, and a 'd'
\* key in Uncalibrated sets nothing.
C4_FactorOnlyAfterCalibration ==
    [][ /\ (conversion_factor' # None => calibration_ratio' # None)
        /\ (pc = "key" /\ key' = "d" /\ State = "Uncalibrated")
             => conversion_factor' = None ]_vars

\* C4 witness: 'd' was pressed in Uncalibrated.
C4_Witness ==
    /\ variant = "main"
    /\ key = "d"
    /\ ~calibration_done
    /\ pc = "read"
    /\ conversion_factor = None

\* C5: a Calibrate or SetDensityFactor action whose typed number is zero or
\* negative changes no calibration attribute, leaves the machine in its
\* state, and the loop goes on so that the action can be retried.
C5_NonPositiveRejected ==
    [][ ( /\ pc = "key"
          /\ key' \in {"c", "d"}
          /\ "input" \in calls'
          /\ IsNum(float(text'))
          /\ IsFinite(float(text'))
          /\ float(text')[1] <= 0 )
        => ( /\ calibration_ratio' = calibration_ratio
             /\ real_diameter' = real_diameter
             /\ conversion_factor' = conversion_factor
             /\ State' = State
             /\ pc' = "read" ) ]_vars

\* C6: a line that float() cannot parse, or a zero, typed at a Calibrate or
\* SetDensityFactor prompt raises nothing out of the handler: the loop goes
\* on to the next frame.
C6_InvalidInputDoesNotEndLoop ==
    [][ ( /\ pc = "key"
          /\ "input" \in calls'
          /\ \/ IsExc(float(text'))
             \/ IsZero(float(text')) )
        => (pc' = "read" /\ exit' = "running") ]_vars

\* C7: calculate_volume returns None exactly when calibration_ratio is
\* unset, and a number, raising nothing, whenever it is set.
C7_VolumeUnavailableIffUncalibrated ==
    \A d \in PixelDiameters :
        /\ (VolumeOf(d) = None) <=> (calibration_ratio = None)
        /\ calibration_ratio # None => IsNum(VolumeOf(d))

\* C8: for every computed volume the weight is present exactly when
\* conversion_factor is set, and then weight = volume * conversion_factor.
C8_WeightIffFactor ==
    variant # "fullscreen" =>
        \A d \in PixelDiameters :
            LET v == VolumeOf(d)
                w == IF IsNum(v) THEN WeightOf(v) ELSE None
            IN  IsNum(v) =>
                  /\ (w # None) <=> (conversion_factor # None)
                  /\ (w # None /\ IsFinite(v) /\ IsFinite(conversion_factor))
                       => w = Float(v[1] * conversion_factor[1],
                                    v[2] * conversion_factor[2])

\* C8 witness: main.py has rendered a finite positive weight.
C8_Witness ==
    /\ variant = "main"
    /\ "calculate_volumetric_weight" \in calls
    /\ IsNum(volume)
    /\ IsNum(volumetric_weight)
    /\ IsFinite(volumetric_weight)
    /\ volumetric_weight[1] > 0

\* C9: the machine only moves forward through Uncalibrated, Calibrated,
\* FactorSet, and in FactorSet no step changes calibration_ratio or
\* conversion_factor.
C9_ForwardOnly ==
    [][ /\ Rank(State') >= Rank(State)
        /\ State = "FactorSet"
             => /\ calibration_ratio' = calibration_ratio
                /\ conversion_factor' = conversion_factor ]_vars

\* C9 witness: 'd' was pressed in FactorSet of main.py.
C9_Witness ==
    /\ variant = "main"
    /\ State = "FactorSet"
    /\ key = "d"
    /\ "input" \notin calls
    /\ pc = "read"

\* C10: when cap.read() reports failure the loop ends in that iteration:
\* nothing is detected, measured or read from the operator, the calibration
\* state stays as it was, and no later step is taken.
C10_ReadFailureEndsLoop ==
    [][ /\ (pc = "read" /\ ~ret')
          => /\ pc' = "done"
             /\ exit' = "read_failed"
             /\ calls' = {}
             /\ UNCHANGED <<calib, circles, circle, volume,
                            volumetric_weight, key, text>>
        /\ pc = "done" => UNCHANGED vars ]_vars

\* C10 witness: the read failed after a calibration.
C10_Witness ==
    /\ exit = "read_failed"
    /\ pc = "done"
    /\ ~ret
    /\ calibration_done

\* C11: in every iteration whose frame holds a detected circle while
\* calibration_ratio is set, calculate_volume is run on that circle's
\* diameter and yields a volume for rendering, also when conversion_factor
\* is not yet set, in which case no weight is produced.
C11_VolumeWheneverCalibrated ==
    [][ (pc = "read" /\ ret' /\ circle' # None /\ calibration_ratio # None)
        => ( /\ "calculate_volume" \in calls'
             /\ IsNum(volume')
             /\ volume' = VolumeOf(2 * circle'[3])
             /\ conversion_factor = None => volumetric_weight' = None ) ]_vars

\* C12: with calibration_ratio set, the computed volume is strictly
\* increasing in the pixel diameter: d1 < d2 gives volume(d1) < volume(d2).
C12_VolumeMonotonic ==
    calibration_ratio # None =>
        \A d1, d2 \in PixelDiameters :
            d1 < d2 => /\ IsNum(VolumeOf(d1))
                       /\ IsNum(VolumeOf(d2))
                       /\ Less(VolumeOf(d1), VolumeOf(d2))

\* The whole number k is the raw value x (x >= 0) cut down to its whole
\* part: k <= x < k + 1.
IsTruncationOf(k, x) == k * x[2] <= x[1] /\ x[1] < (k + 1) * x[2]

\* The whole number k is the raw value x (x >= 0) rounded to the nearest
\* whole number, a fraction of .5 going up: k <= x + 1/2 < k + 1.
IsNearestTo(k, x) ==
    2 * k * x[2] <= 2 * x[1] + x[2] /\ 2 * x[1] + x[2] < 2 * (k + 1) * x[2]

\* C13 as stated: detect_ball returns none when HoughCircles returns no
\* candidate, and otherwise the first-ranked candidate with x, y and r each
\* rounded to the nearest whole pixel.
C13_FirstCandidateRounded ==
    [][ (pc = "read" /\ ret')
        => IF circles' = None THEN circle' = None
           ELSE /\ circle' # None
                /\ \A i \in 1..3 : IsNearestTo(circle'[i], circles'[1][i]) ]_vars

\* C13 as amended: detect_ball returns none when HoughCircles returns no
\* candidate, and otherwise the first-ranked candidate with x, y and r each
\* truncated toward zero to a whole pixel (int()), so a fractional part of
\* .5 or more is dropped.
C13_FirstCandidateTruncated ==
    [][ (pc = "read" /\ ret')
        => IF circles' = None THEN circle' = None
           ELSE /\ circle' # None
                /\ \A i \in 1..3 :
                     IsTruncationOf(circle'[i], circles'[1][i]) ]_vars

\* C13 witness: of two candidates the first, (120.4, 98.7, 25.7), was
\* returned as (120, 98, 25).
C13_Witness ==
    /\ "detect_ball" \in calls
    /\ Len(circles) = 2
    /\ circles[1] = <<Float(1204, 10), Float(987, 10), Float(257, 10)>>
    /\ circles[2] # circles[1]
    /\ circle = <<120, 98, 25>>

=============================================================================
